---- MODULE Spec2Model ----
(***************************************************************************)
(* Model of src/app.py: a Streamlit page over two Supabase tables,         *)
(* "kategorie" {id, nazwa} and "produkty" {id, nazwa, cena, liczba,        *)
(* kategoria_id}.  One script run = fetch kategorie, fetch produkty,       *)
(* compute the metrics, run the handler of the widget that triggered the   *)
(* run (at most one), then either st.rerun() (mutation succeeded) or       *)
(* render the rest of the page.  Other instances of the same page share    *)
(* the tables and may write between any two steps of this instance.        *)
(* Prices are in grosze (integers).                                        *)
(***************************************************************************)
EXTENDS Integers, Sequences, FiniteSets, TLC

\* ---------------------------------------------------------------- bounds
MaxOps == 2       \* store mutations accepted over a behaviour (all instances)
MaxQty == 2       \* largest quantity a form input or a stored row may hold
MaxMsgLen == 3    \* longest error text, in tokens (classification only)

\* ---------------------------------------------------------- value domains
CatNames  == <<"A", "B">>          \* category names, in ascending order
ProdNames == {"x", "y"}
Prices    == {1, 2}                \* number_input(min_value=0.01): positive
MinQty    == 1                     \* number_input(min_value=1)
None      == 0                     \* None / SQL NULL where an id is expected
Tokens    == {"42501", "404", "42703", "23503"}

Range(s) == {s[i] : i \in DOMAIN s}
Max(S) == CHOOSE m \in S : \A n \in S : n <= m
Min(S) == CHOOSE m \in S : \A n \in S : m <= n
NameRank(n) == CHOOSE i \in DOMAIN CatNames : CatNames[i] = n

VARIABLES
  kategorie,      \* remote table: set of rows [id, nazwa]
  produkty,       \* remote table: set of rows [id, nazwa, cena, liczba, kategoria_id]
  next_kat_id,    \* server-side id sequence of kategorie
  next_prod_id,   \* server-side id sequence of produkty
  categories,     \* this run's `categories` (line 134)
  products,       \* this run's `products` (line 135)
  total_value,    \* this run's metric (line 348)
  page,           \* widgets drawn by the last completed run
  errors,         \* st.error boxes of the current run: <<[src, kind]>>
  pc,             \* "fetch_cats" | "fetch_prods" | "handle" | "idle" | "crashed"
  pending,        \* the widget whose click/submit triggered the current run
  last,           \* history: the handler call of the current user action
  sent,           \* history: mutation requests sent for the current user action
  fetched,        \* history: tables read since run start / last successful mutation
  read_failed,    \* history: tables whose read the remote failed in this run
  ops,            \* history: accepted store mutations so far (bounded by MaxOps)
  err_msg,        \* classification harness: an error text
  shown           \* classification harness: the message class handle_error showed

vars == <<kategorie, produkty, next_kat_id, next_prod_id, categories, products,
          total_value, page, errors, pc, pending, last, sent, fetched, read_failed, ops,
          err_msg, shown>>

storeVars == <<kategorie, produkty, next_kat_id, next_prod_id>>
harnessVars == <<err_msg, shown>>

\* ------------------------------------------------------------ error texts
RECURSIVE Messages(_)
Messages(n) ==
  IF n = 0 THEN {<<>>}
  ELSE LET Shorter == Messages(n - 1)
       IN Shorter \cup {Append(m, t) : m \in {s \in Shorter : Len(s) = n - 1}, t \in Tokens}

\* `code in err_msg` (substring test), at token granularity
Contains(code, msg) == \E i \in DOMAIN msg : msg[i] = code

handle_error(e) ==
  IF Contains("42501", e) THEN "PermissionDenied"
  ELSE IF Contains("404", e) THEN "NotFound"
  ELSE IF Contains("42703", e) THEN "SchemaMismatch"
  ELSE "Unknown"

\* ------------------------------------------------ the remote store (PostgREST)
\* What the network and the access rules may do to one request: let it
\* through, or fail it with some error text.
FaultTexts == {<<"42501">>}
Env == {[raise |-> FALSE, text |-> <<>>]} \cup {[raise |-> TRUE, text |-> t] : t \in FaultTexts}
FkPolicies == {"restrict", "cascade", "set_null"}

Failed(text) ==
  [raise |-> TRUE, text |-> text, data |-> <<>>, kategorie |-> kategorie,
   produkty |-> produkty, next_kat_id |-> next_kat_id, next_prod_id |-> next_prod_id]
Done(K, P, nk, np, data) ==
  [raise |-> FALSE, text |-> <<>>, data |-> data, kategorie |-> K,
   produkty |-> P, next_kat_id |-> nk, next_prod_id |-> np]

RECURSIVE OrderByNazwa(_)
\* every ordering of the rows by nazwa ascending (ties in any order)
OrderByNazwa(S) ==
  IF S = {} THEN {<<>>}
  ELSE UNION {{<<r>> \o t : t \in OrderByNazwa(S \ {r})} :
              r \in {r \in S : \A q \in S : NameRank(r.nazwa) <= NameRank(q.nazwa)}}

RECURSIVE OrderByIdDesc(_)
OrderByIdDesc(S) ==
  IF S = {} THEN <<>>
  ELSE LET m == CHOOSE r \in S : \A q \in S : q.id <= r.id
       IN <<m>> \o OrderByIdDesc(S \ {m})

\* the embedded resource kategorie(nazwa): <<>> when the foreign key is NULL
Embed(p) ==
  [id |-> p.id, nazwa |-> p.nazwa, cena |-> p.cena, liczba |-> p.liczba,
   kategoria_id |-> p.kategoria_id,
   kategorie |-> IF \E c \in kategorie : c.id = p.kategoria_id
                 THEN <<[nazwa |-> (CHOOSE c \in kategorie : c.id = p.kategoria_id).nazwa]>>
                 ELSE <<>>]

\* table("kategorie").select("*").order("nazwa").execute()
SelectKategorie(env) ==
  IF env.raise THEN {Failed(env.text)}
  ELSE {Done(kategorie, produkty, next_kat_id, next_prod_id, d) : d \in OrderByNazwa(kategorie)}

\* table("produkty").select("*, kategorie(nazwa)").order("id", desc=True).execute()
SelectProdukty(env) ==
  IF env.raise THEN Failed(env.text)
  ELSE LET rows == OrderByIdDesc(produkty)
       IN Done(kategorie, produkty, next_kat_id, next_prod_id,
               [i \in DOMAIN rows |-> Embed(rows[i])])

\* table("kategorie").insert({"nazwa": name}).execute()
InsertKategoria(name, env) ==
  IF env.raise THEN Failed(env.text)
  ELSE Done(kategorie \cup {[id |-> next_kat_id, nazwa |-> name]}, produkty,
            next_kat_id + 1, next_prod_id, <<>>)

\* table("kategorie").delete().eq("id", cat_id).execute(); rows of produkty that
\* reference the category follow the foreign key's ON DELETE rule
DeleteKategoria(cat_id, env, policy) ==
  IF env.raise THEN Failed(env.text)
  ELSE LET refs == {p \in produkty : p.kategoria_id = cat_id}
           K == {c \in kategorie : c.id # cat_id}
       IN IF refs = {} \/ ~(\E c \in kategorie : c.id = cat_id)
          THEN Done(K, produkty, next_kat_id, next_prod_id, <<>>)
          ELSE IF policy = "restrict" THEN Failed(<<"23503">>)
          ELSE IF policy = "cascade"
          THEN Done(K, produkty \ refs, next_kat_id, next_prod_id, <<>>)
          ELSE Done(K, {IF p \in refs THEN [p EXCEPT !.kategoria_id = None] ELSE p : p \in produkty},
                    next_kat_id, next_prod_id, <<>>)

\* table("produkty").insert(data).execute(); the foreign key rejects a
\* kategoria_id that is in no row of kategorie
InsertProdukt(data, env) ==
  IF env.raise THEN Failed(env.text)
  ELSE IF ~(\E c \in kategorie : c.id = data.kategoria_id) THEN Failed(<<"23503">>)
  ELSE Done(kategorie,
            produkty \cup {[id |-> next_prod_id, nazwa |-> data.nazwa, cena |-> data.cena,
                            liczba |-> data.liczba, kategoria_id |-> data.kategoria_id]},
            next_kat_id, next_prod_id + 1, <<>>)

\* table("produkty").update({"liczba": n}).eq("id", product_id).execute()
UpdateLiczba(product_id, n, env) ==
  IF env.raise THEN Failed(env.text)
  ELSE Done(kategorie,
            {IF p.id = product_id THEN [p EXCEPT !.liczba = n] ELSE p : p \in produkty},
            next_kat_id, next_prod_id, <<>>)

\* table("produkty").update({"cena": c}).eq("id", product_id).execute()
UpdateCena(product_id, c, env) ==
  IF env.raise THEN Failed(env.text)
  ELSE Done(kategorie,
            {IF p.id = product_id THEN [p EXCEPT !.cena = c] ELSE p : p \in produkty},
            next_kat_id, next_prod_id, <<>>)

\* table("produkty").delete().eq("id", prod_id).execute(): a filter that
\* matches no row deletes nothing and is no error
DeleteProdukt(prod_id, env) ==
  IF env.raise THEN Failed(env.text)
  ELSE Done(kategorie, {p \in produkty : p.id # prod_id}, next_kat_id, next_prod_id, <<>>)

\* ------------------------------------------------------- data-access functions
\* Each takes the remote's response `resp` to the one request it sends and
\* returns [ret, err, raised]: its return value, the st.error boxes it showed,
\* and whether an exception escaped it.
Box(src, kind) == [src |-> src, kind |-> kind]

\* mutant of get_data: no try/except around the request
get_data_unguarded(resp) ==
  IF resp.raise
  THEN [ret |-> <<>>, err |-> <<>>, raised |-> TRUE]
  ELSE [ret |-> resp.data, err |-> <<>>, raised |-> FALSE]

get_data(resp) ==
  IF resp.raise
  THEN [ret |-> <<>>, err |-> <<Box("get_data", handle_error(resp.text))>>, raised |-> FALSE]
  ELSE [ret |-> resp.data, err |-> <<>>, raised |-> FALSE]

\* flat = item.copy(); flat['kategoria_nazwa'] = ... (lines 65-66)
Flatten(item) ==
  [id |-> item.id, nazwa |-> item.nazwa, cena |-> item.cena, liczba |-> item.liczba,
   kategoria_id |-> item.kategoria_id, kategorie |-> item.kategorie,
   kategoria_nazwa |-> IF item.kategorie # <<>> THEN item.kategorie[1].nazwa ELSE "---"]

get_products_with_categories(resp) ==
  IF resp.raise
  THEN [ret |-> <<>>, err |-> <<Box("get_products_with_categories", handle_error(resp.text))>>,
        raised |-> FALSE]
  ELSE [ret |-> [i \in DOMAIN resp.data |-> Flatten(resp.data[i])], err |-> <<>>,
        raised |-> FALSE]

add_category(resp) ==
  IF resp.raise
  THEN [ret |-> FALSE, err |-> <<Box("add_category", handle_error(resp.text))>>, raised |-> FALSE]
  ELSE [ret |-> TRUE, err |-> <<>>, raised |-> FALSE]

delete_category(resp) ==
  IF resp.raise
  THEN [ret |-> FALSE, err |-> <<Box("delete_category", handle_error(resp.text))>>, raised |-> FALSE]
  ELSE [ret |-> TRUE, err |-> <<>>, raised |-> FALSE]

add_product(resp) ==
  IF resp.raise
  THEN [ret |-> FALSE, err |-> <<Box("add_product", handle_error(resp.text))>>, raised |-> FALSE]
  ELSE [ret |-> TRUE, err |-> <<>>, raised |-> FALSE]

update_product_quantity(resp) ==
  IF resp.raise
  THEN [ret |-> FALSE, err |-> <<Box("update_product_quantity", handle_error(resp.text))>>,
        raised |-> FALSE]
  ELSE [ret |-> TRUE, err |-> <<>>, raised |-> FALSE]

update_product_price(resp) ==
  IF resp.raise
  THEN [ret |-> FALSE, err |-> <<Box("update_product_price", handle_error(resp.text))>>,
        raised |-> FALSE]
  ELSE [ret |-> TRUE, err |-> <<>>, raised |-> FALSE]

delete_product(resp) ==
  IF resp.raise
  THEN [ret |-> FALSE, err |-> <<Box("delete_product", handle_error(resp.text))>>, raised |-> FALSE]
  ELSE [ret |-> TRUE, err |-> <<>>, raised |-> FALSE]

\* ------------------------------------------------------------ presentation
\* mutant of TotalValue: the quantity factor is left out
RECURSIVE SumCena(_, _)
SumCena(ps, n) == IF n = 0 THEN 0 ELSE SumCena(ps, n - 1) + ps[n].cena
TotalValue_prices_only(ps) == IF ps # <<>> THEN SumCena(ps, Len(ps)) ELSE 0

\* total_value = sum([p.get('cena', 0) * p.get('liczba', 0) for p in products]) if products else 0
RECURSIVE SumFirst(_, _)
SumFirst(ps, n) == IF n = 0 THEN 0 ELSE SumFirst(ps, n - 1) + ps[n].cena * ps[n].liczba
TotalValue(ps) == IF ps # <<>> THEN SumFirst(ps, Len(ps)) ELSE 0

\* mutant of Render: the product tab is guarded by `products`, not `categories`
Render_guard_on_products(cats, prods) ==
  {"dark_mode", "metrics", "add_cat_form"}
  \cup (IF prods = <<>>
        THEN {"warning", "no_categories_text"}
        ELSE {"add_prod_form", "category_list", "listing", "update_qty_form",
              "update_price_form", "delete_button"})

\* the widgets one complete run draws (lines 142, 351-354, 362-600)
Render(cats, prods) ==
  {"dark_mode", "metrics", "add_cat_form"}
  \cup (IF cats = <<>>
        THEN {"warning", "no_categories_text"}
        ELSE {"add_prod_form", "category_list"}
             \cup (IF prods # <<>>
                   THEN {"listing", "update_qty_form", "update_price_form", "delete_button"}
                   ELSE {"empty_info"}))

\* prod_map = {p['nazwa']: p for p in products}: a later row replaces an earlier one
prod_map(ps, name) == ps[Max({i \in DOMAIN ps : ps[i].nazwa = name})]

\* next((p['id'] for p in products if p['nazwa'] == name), None)
first_id(ps, name) ==
  IF \E i \in DOMAIN ps : ps[i].nazwa = name
  THEN ps[Min({i \in DOMAIN ps : ps[i].nazwa = name})].id
  ELSE None

\* mutant of cat_map: the id of the first category, whatever name was picked
cat_map_first(cats, name) == cats[1].id

\* cat_map = {c['nazwa']: c['id'] for c in categories}
cat_map(cats, name) == cats[Max({i \in DOMAIN cats : cats[i].nazwa = name})].id

\* list(cat_map.keys()): each name once, in order of first occurrence
RECURSIVE KeysUpTo(_, _)
KeysUpTo(cats, n) ==
  IF n = 0 THEN <<>>
  ELSE LET ks == KeysUpTo(cats, n - 1)
       IN IF cats[n].nazwa \in Range(ks) THEN ks ELSE Append(ks, cats[n].nazwa)
cat_options(cats) == KeysUpTo(cats, Len(cats))

\* mutant of after_mutation: st.rerun() is missing
after_mutation_no_rerun(ok) == "idle"

\* `if f(...): time.sleep(1); st.rerun()`: where the run goes after a mutation
after_mutation(ok) == IF ok THEN "fetch_cats" ELSE "idle"

NoPending == [widget |-> "none", id |-> None]
NoLast ==
  [op |-> "none", id |-> None, cat_id |-> None, name |-> "", kat |-> "", dir |-> "",
   arg |-> 0, cur |-> 0, stored |-> 0, existed |-> FALSE, raise |-> FALSE, ret |-> FALSE]

\* What earlier sessions may have left in the tables when the page is opened:
\* nothing, or one category holding one product.
InitStores ==
  {[kategorie |-> {}, produkty |-> {}, next_kat_id |-> 1, next_prod_id |-> 1],
   [kategorie |-> {[id |-> 1, nazwa |-> "A"]},
    produkty |-> {[id |-> 1, nazwa |-> "x", cena |-> 1, liczba |-> 1, kategoria_id |-> 1]},
    next_kat_id |-> 2, next_prod_id |-> 2]}

Init ==
  /\ \E st \in InitStores :
       /\ kategorie = st.kategorie /\ produkty = st.produkty
       /\ next_kat_id = st.next_kat_id /\ next_prod_id = st.next_prod_id
  /\ categories = <<>> /\ products = <<>> /\ total_value = 0
  /\ page = {} /\ errors = <<>>
  /\ pc = "fetch_cats" /\ pending = NoPending /\ last = NoLast
  /\ sent = 0 /\ fetched = {} /\ read_failed = {} /\ ops = 0
  /\ err_msg = <<>> /\ shown = "none"

\* line 134: categories = get_data("kategorie", order_by="nazwa", ascending=True)
FetchCategories ==
  /\ pc = "fetch_cats"
  /\ \E env \in Env : \E resp \in SelectKategorie(env) :
       LET r == get_data(resp)
       IN /\ categories' = r.ret
          /\ errors' = errors \o r.err
          /\ pc' = IF r.raised THEN "crashed" ELSE "fetch_prods"
          /\ read_failed' = IF resp.raise THEN read_failed \cup {"kategorie"} ELSE read_failed
  /\ fetched' = fetched \cup {"kategorie"}
  /\ UNCHANGED <<storeVars, products, total_value, page, pending, last, sent, ops, harnessVars>>

\* lines 135-354: products = get_products_with_categories(), then the metrics;
\* a run no widget triggered draws the whole page
FetchProducts ==
  /\ pc = "fetch_prods"
  /\ \E env \in Env :
       LET resp == SelectProdukty(env)
           r == get_products_with_categories(resp)
       IN /\ products' = r.ret
          /\ total_value' = TotalValue(r.ret)
          /\ errors' = errors \o r.err
          /\ pc' = IF r.raised THEN "crashed"
                   ELSE IF pending = NoPending THEN "idle" ELSE "handle"
          /\ page' = IF ~r.raised /\ pending = NoPending THEN Render(categories, r.ret) ELSE page
          /\ read_failed' = IF resp.raise THEN read_failed \cup {"produkty"} ELSE read_failed
  /\ fetched' = fetched \cup {"produkty"}
  /\ UNCHANGED <<storeVars, categories, pending, last, sent, ops, harnessVars>>

\* a click or a form submit on the drawn page starts a run (the delete button
\* of a category row carries that row's id in its key)
UserSubmit ==
  /\ pc = "idle"
  /\ \E w \in page \ {"metrics", "warning", "no_categories_text", "listing", "empty_info",
                      "category_list"} :
       pending' = IF w = "dark_mode" THEN NoPending ELSE [widget |-> w, id |-> None]
  /\ pc' = "fetch_cats"
  /\ errors' = <<>> /\ sent' = 0 /\ fetched' = {} /\ read_failed' = {} /\ last' = NoLast
  /\ UNCHANGED <<storeVars, categories, products, total_value, page, ops, harnessVars>>

\* line 581: the per-row button of the category tab
UserClickDeleteCategory ==
  /\ pc = "idle"
  /\ "category_list" \in page
  /\ \E i \in DOMAIN categories : pending' = [widget |-> "del_c", id |-> categories[i].id]
  /\ pc' = "fetch_cats"
  /\ errors' = <<>> /\ sent' = 0 /\ fetched' = {} /\ read_failed' = {} /\ last' = NoLast
  /\ UNCHANGED <<storeVars, categories, products, total_value, page, ops, harnessVars>>

\* the run reaches its end without sending a request: the page is drawn
Finish(boxes, l) ==
  /\ pc' = "idle"
  /\ errors' = errors \o boxes
  /\ page' = Render(categories, products)
  /\ pending' = NoPending
  /\ last' = l
  /\ UNCHANGED <<storeVars, categories, products, total_value, sent, fetched, read_failed,
                 ops, harnessVars>>

\* the handler called a mutating data-access function: `resp` is the remote's
\* answer, `r` what the function returned
Mutate(resp, r, l) ==
  /\ ops < MaxOps
  /\ kategorie' = resp.kategorie /\ produkty' = resp.produkty
  /\ next_kat_id' = resp.next_kat_id /\ next_prod_id' = resp.next_prod_id
  /\ sent' = sent + 1
  /\ ops' = IF resp.raise THEN ops ELSE ops + 1
  /\ pc' = IF r.raised THEN "crashed" ELSE after_mutation(r.ret)
  /\ errors' = IF pc' = "fetch_cats" THEN <<>> ELSE errors \o r.err
  /\ page' = IF pc' = "idle" THEN Render(categories, products) ELSE page
  /\ fetched' = IF ~resp.raise THEN {} ELSE fetched
  /\ read_failed' = IF pc' = "fetch_cats" THEN {} ELSE read_failed
  /\ pending' = NoPending
  /\ last' = l
  /\ UNCHANGED <<categories, products, total_value, harnessVars>>

ProductNames(ps) == {ps[i].nazwa : i \in DOMAIN ps}

\* history only: the quantity the table holds for a row when a request is sent
stored_qty(id) ==
  IF \E p \in produkty : p.id = id THEN (CHOOSE p \in produkty : p.id = id).liczba ELSE 0

\* mutant of can_decrement: the stock check is missing
can_decrement_unchecked(current_qty, qty_input) == TRUE

\* mutant of can_decrement: strict comparison
can_decrement_strict(current_qty, qty_input) == current_qty > qty_input

\* line 474: a decrement is sent only when the stock read in this run covers it
can_decrement(current_qty, qty_input) == current_qty >= qty_input

\* lines 445-482: update_qty_form.  `last` records the call: id, inputs, the
\* quantity read (cur), whether the row was still in the table (existed)
HandleUpdateQty ==
  /\ pc = "handle" /\ pending.widget = "update_qty_form"
  /\ IF "update_qty_form" \notin Render(categories, products)
     THEN Finish(<<>>, NoLast)
     ELSE \E selected_prod_name \in ProductNames(products), operation \in {"(+)", "(-)"},
             qty_input \in MinQty..MaxQty, env \in Env :
            LET p_data == prod_map(products, selected_prod_name)
                current_qty == p_data.liczba
                new_qty == IF operation = "(+)" THEN current_qty + qty_input
                           ELSE current_qty - qty_input
                resp == UpdateLiczba(p_data.id, new_qty, env)
                r == update_product_quantity(resp)
                l == [NoLast EXCEPT !.op = "update_qty_form", !.id = p_data.id,
                                    !.name = selected_prod_name, !.dir = operation,
                                    !.arg = qty_input, !.cur = current_qty,
                                    !.stored = stored_qty(p_data.id),
                                    !.existed = \E p \in produkty : p.id = p_data.id]
            IN IF operation = "(+)" \/ can_decrement(current_qty, qty_input)
               THEN /\ new_qty <= MaxQty
                    /\ Mutate(resp, r, [l EXCEPT !.raise = resp.raise, !.ret = r.ret])
               ELSE Finish(<<Box("update_qty_form", "Validation")>>, l)

\* lines 488-509: update_price_form
HandleUpdatePrice ==
  /\ pc = "handle" /\ pending.widget = "update_price_form"
  /\ IF "update_price_form" \notin Render(categories, products)
     THEN Finish(<<>>, NoLast)
     ELSE \E selected_price_name \in ProductNames(products), new_price_input \in Prices,
             env \in Env :
            LET prod_id == first_id(products, selected_price_name)
                resp == UpdateCena(prod_id, new_price_input, env)
                r == update_product_price(resp)
                l == [NoLast EXCEPT !.op = "update_price_form", !.id = prod_id,
                                    !.name = selected_price_name, !.arg = new_price_input,
                                    !.existed = \E p \in produkty : p.id = prod_id]
            IN IF prod_id # None
               THEN Mutate(resp, r, [l EXCEPT !.raise = resp.raise, !.ret = r.ret])
               ELSE Finish(<<>>, l)

\* lines 516-531: the delete selectbox and its button
HandleDeleteProduct ==
  /\ pc = "handle" /\ pending.widget = "delete_button"
  /\ IF "delete_button" \notin Render(categories, products)
     THEN Finish(<<>>, NoLast)
     ELSE \E selected_del_name \in ProductNames(products), env \in Env :
            LET prod_id_to_del == first_id(products, selected_del_name)
                resp == DeleteProdukt(prod_id_to_del, env)
                r == delete_product(resp)
                l == [NoLast EXCEPT !.op = "delete_button", !.id = prod_id_to_del,
                                    !.name = selected_del_name,
                                    !.existed = \E p \in produkty : p.id = prod_id_to_del]
            IN IF prod_id_to_del # None
               THEN Mutate(resp, r, [l EXCEPT !.raise = resp.raise, !.ret = r.ret])
               ELSE Finish(<<>>, l)

\* mutant of name_given: the emptiness check is missing
name_given_always(text) == TRUE

\* `if f_nazwa:` / `if new_cat_name:` (lines 554, 595): a text input was filled in
name_given(text) == text # ""

\* lines 540-565: add_prod_form
HandleAddProduct ==
  /\ pc = "handle" /\ pending.widget = "add_prod_form"
  /\ IF "add_prod_form" \notin Render(categories, products)
     THEN Finish(<<>>, NoLast)
     ELSE \E f_nazwa \in ProdNames \cup {""}, f_kat \in Range(cat_options(categories)),
             f_cena \in Prices, f_liczba \in MinQty..MaxQty, env \in Env :
            LET new_prod_data == [nazwa |-> f_nazwa, cena |-> f_cena, liczba |-> f_liczba,
                                  kategoria_id |-> cat_map(categories, f_kat)]
                resp == InsertProdukt(new_prod_data, env)
                r == add_product(resp)
                l == [NoLast EXCEPT !.op = "add_prod_form", !.id = next_prod_id,
                                    !.cat_id = new_prod_data.kategoria_id,
                                    !.name = f_nazwa, !.kat = f_kat, !.arg = f_liczba,
                                    !.existed = \E c \in kategorie :
                                                   c.id = new_prod_data.kategoria_id]
            IN IF ~name_given(f_nazwa)
               THEN Finish(<<Box("add_prod_form", "Validation")>>, l)
               ELSE Mutate(resp, r, [l EXCEPT !.raise = resp.raise, !.ret = r.ret])

\* lines 576-584: the delete button of one category row
HandleDeleteCategory ==
  /\ pc = "handle" /\ pending.widget = "del_c"
  /\ IF ~(\E i \in DOMAIN categories : categories[i].id = pending.id)
     THEN Finish(<<>>, NoLast)
     ELSE \E env \in Env, policy \in FkPolicies :
            LET resp == DeleteKategoria(pending.id, env, policy)
                r == delete_category(resp)
                l == [NoLast EXCEPT !.op = "del_c", !.id = pending.id,
                                    !.existed = \E c \in kategorie : c.id = pending.id]
            IN Mutate(resp, r, [l EXCEPT !.raise = resp.raise, !.ret = r.ret])

\* lines 591-600: add_cat_form
HandleAddCategory ==
  /\ pc = "handle" /\ pending.widget = "add_cat_form"
  /\ \E new_cat_name \in Range(CatNames) \cup {""}, env \in Env :
       LET resp == InsertKategoria(new_cat_name, env)
           r == add_category(resp)
           l == [NoLast EXCEPT !.op = "add_cat_form", !.id = next_kat_id,
                               !.name = new_cat_name]
       IN IF name_given(new_cat_name)
          THEN Mutate(resp, r, [l EXCEPT !.raise = resp.raise, !.ret = r.ret])
          ELSE Finish(<<Box("add_cat_form", "Validation")>>, l)

\* ------------------------------------------------------------ other instances
\* Another instance of the page, connected to the same tables, gets one of its
\* own requests accepted.  What this instance recorded about its own last call
\* no longer describes the tables, so the record is dropped.
Other(resp) ==
  /\ ops < MaxOps
  /\ kategorie' = resp.kategorie /\ produkty' = resp.produkty
  /\ next_kat_id' = resp.next_kat_id /\ next_prod_id' = resp.next_prod_id
  /\ ops' = ops + 1
  /\ last' = NoLast
  /\ UNCHANGED <<categories, products, total_value, page, errors, pc, pending, sent,
                 fetched, read_failed, harnessVars>>

Accept == [raise |-> FALSE, text |-> <<>>]

OtherDeleteProduct ==
  \E p \in produkty : Other(DeleteProdukt(p.id, Accept))

OtherDeleteCategory ==
  \E c \in kategorie, policy \in FkPolicies \ {"restrict"} :
    Other(DeleteKategoria(c.id, Accept, policy))

OtherUpdateQuantity ==
  \E p \in produkty, n \in 0..MaxQty :
    /\ n # p.liczba
    /\ Other(UpdateLiczba(p.id, n, Accept))

Next ==
  \/ FetchCategories
  \/ FetchProducts
  \/ UserSubmit
  \/ UserClickDeleteCategory
  \/ HandleUpdateQty
  \/ HandleUpdatePrice
  \/ HandleDeleteProduct
  \/ HandleAddProduct
  \/ HandleDeleteCategory
  \/ HandleAddCategory
  \/ OtherDeleteProduct
  \/ OtherDeleteCategory
  \/ OtherUpdateQuantity

Spec == Init /\ [][Next]_vars

\* ------------------------------------------------- classification of one text
\* handle_error applied to every error text of up to MaxMsgLen tokens
InitClassify ==
  /\ kategorie = {} /\ produkty = {}
  /\ next_kat_id = 1 /\ next_prod_id = 1
  /\ categories = <<>> /\ products = <<>> /\ total_value = 0
  /\ page = {} /\ errors = <<>>
  /\ pc = "fetch_cats" /\ pending = NoPending /\ last = NoLast
  /\ sent = 0 /\ fetched = {} /\ read_failed = {} /\ ops = 0
  /\ err_msg \in Messages(MaxMsgLen) /\ shown = "none"

Classify ==
  /\ shown = "none"
  /\ shown' = handle_error(err_msg)
  /\ UNCHANGED <<storeVars, categories, products, total_value, page, errors, pc, pending,
                 last, sent, fetched, read_failed, ops, err_msg>>

SpecClassify == InitClassify /\ [][Classify]_vars

\* ===================================================================== claims
Kinds == {"PermissionDenied", "NotFound", "SchemaMismatch", "Unknown"}
Tables == {"kategorie", "produkty"}
Boxes(src) == {i \in DOMAIN errors : errors[i].src = src}

\* what a product listing requested now returns
ListNow == get_products_with_categories(SelectProdukty(Accept)).ret
\* what a category listing requested now may return
CategoryListingsNow == {get_data(resp).ret : resp \in SelectKategorie(Accept)}

\* the data-access function each widget's handler calls
FnOf(op) ==
  CASE op = "update_qty_form" -> "update_product_quantity"
    [] op = "update_price_form" -> "update_product_price"
    [] op = "delete_button" -> "delete_product"
    [] op = "add_prod_form" -> "add_product"
    [] op = "del_c" -> "delete_category"
    [] op = "add_cat_form" -> "add_category"
    [] OTHER -> "none"

\* C1: once delete_product(id) has been called and returned success, a product
\* listing holds no row with that id; and when the id was already deleted at
\* the time of the call, the call returns failure and a NotFound error is shown.
C1_DeleteProductContract ==
  (last.op = "delete_button" /\ sent = 1) =>
    /\ last.ret => \A i \in DOMAIN ListNow : ListNow[i].id # last.id
    /\ ~last.existed => /\ ~last.ret
                        /\ Box("delete_product", "NotFound") \in Range(errors)

\* C2: in update_qty_form, a decrement larger than the quantity read for the
\* product sends no update and shows a validation error; a decrement equal to
\* that quantity is sent, and once the remote accepts it the row's stored
\* quantity is 0.
C2_DecrementBoundary ==
  (last.op = "update_qty_form" /\ last.dir = "(-)") =>
    /\ last.arg > last.cur =>
         /\ sent = 0
         /\ pc = "idle"
         /\ Box("update_qty_form", "Validation") \in Range(errors)
    /\ last.arg = last.cur =>
         /\ sent = 1
         /\ (last.ret /\ last.existed) =>
              \E p \in produkty : p.id = last.id /\ p.liczba = 0

C2_Witness ==
  /\ last.op = "update_qty_form" /\ last.dir = "(-)"
  /\ last.arg = last.cur /\ last.ret /\ last.existed
  /\ \E p \in produkty : p.id = last.id /\ p.liczba = 0

\* C3: one user action sends at most one mutation; after a mutation that
\* succeeded the page is drawn again only once both tables have been fetched
\* again; after a mutation that failed the run ends without a reload and the
\* error of the failing function is on the page.
C3_OneMutationThenReload ==
  /\ sent <= 1
  /\ (pc = "idle" /\ last.ret) => fetched = Tables
  /\ (sent = 1 /\ last.op # "none" /\ ~last.ret) =>
       /\ pc = "idle"
       /\ fetched = Tables
       /\ \E i \in Boxes(FnOf(last.op)) : errors[i].kind \in Kinds

C3_Witness ==
  /\ pc = "idle" /\ last.ret /\ sent = 1 /\ fetched = Tables
  /\ "listing" \in page

\* C4 (checked under SpecClassify): an error text that carries the code 42703
\* is shown as SchemaMismatch, whatever else the text contains.
C4_MissingColumnIsSchemaMismatch ==
  (shown # "none" /\ Contains("42703", err_msg)) => shown = "SchemaMismatch"

\* C5: when the read of kategorie or of produkty fails, that listing is empty
\* and its error is shown, and the rest of the page is drawn: a failed category
\* read leaves the product listing and the quick actions on the page, a failed
\* product read leaves the category list and the creation forms on the page.
C5_FailedReadDegrades ==
  pc = "idle" =>
    /\ "kategorie" \in read_failed =>
         /\ categories = <<>>
         /\ Boxes("get_data") # {}
         /\ ("produkty" \notin read_failed /\ products # <<>>) =>
              {"listing", "update_qty_form", "update_price_form", "delete_button"} \subseteq page
    /\ "produkty" \in read_failed =>
         /\ products = <<>>
         /\ Boxes("get_products_with_categories") # {}
         /\ "add_cat_form" \in page
         /\ categories # <<>> => {"category_list", "add_prod_form"} \subseteq page

\* C6: a page drawn from an empty category list shows the warning and no
\* product-creation form; a page drawn from a non-empty one shows the form,
\* whose selector offers exactly the names in that list, each once; a category
\* read that succeeds returns exactly the rows of the table (none when the
\* table is empty); so after add_category succeeded, the next page drawn from
\* a successful category read has the form, with the new name among its options.
C6_FormNeedsCategory ==
  /\ [](pc = "idle" =>
          /\ categories = <<>> => ("warning" \in page /\ "add_prod_form" \notin page)
          /\ categories # <<>> =>
               /\ "add_prod_form" \in page /\ "warning" \notin page
               /\ Range(cat_options(categories)) = {categories[i].nazwa : i \in DOMAIN categories}
               /\ Cardinality(Range(cat_options(categories))) = Len(cat_options(categories)))
  /\ []((pc = "idle" /\ last.op = "add_cat_form" /\ last.ret /\ "kategorie" \notin read_failed) =>
          /\ "add_prod_form" \in page
          /\ last.name \in Range(cat_options(categories))
          /\ Len(categories) = 1 => cat_options(categories) = <<last.name>>)
  /\ [][(pc = "fetch_cats" /\ pc' = "fetch_prods" /\ "kategorie" \notin read_failed') =>
          /\ Range(categories') = kategorie
          /\ Len(categories') = Cardinality(kategorie)]_vars

C6_Witness ==
  /\ pc = "idle" /\ last.op = "add_cat_form" /\ last.ret /\ last.id = 1
  /\ "kategorie" \notin read_failed
  /\ "add_prod_form" \in page
  /\ cat_options(categories) = <<last.name>>

\* C7: no data-access function lets a failure of its remote call escape: a
\* failed read leaves its list empty and exactly one classified error box of
\* that function, a read that did not fail leaves no box; a failed mutation
\* returns False with exactly one classified error box of that function, a
\* mutation the remote accepted returns True; the run never crashes.
C7_FailuresCaughtAtBoundary ==
  /\ pc # "crashed"
  /\ "kategorie" \in read_failed =>
       /\ categories = <<>>
       /\ Cardinality(Boxes("get_data")) = 1
       /\ \A i \in Boxes("get_data") : errors[i].kind \in Kinds
  /\ "produkty" \in read_failed =>
       /\ products = <<>>
       /\ Cardinality(Boxes("get_products_with_categories")) = 1
       /\ \A i \in Boxes("get_products_with_categories") : errors[i].kind \in Kinds
  /\ "kategorie" \notin read_failed => Boxes("get_data") = {}
  /\ "produkty" \notin read_failed => Boxes("get_products_with_categories") = {}
  /\ (sent = 1 /\ last.op # "none") =>
       /\ last.raise => /\ ~last.ret
                        /\ Cardinality(Boxes(FnOf(last.op))) = 1
                        /\ \A i \in Boxes(FnOf(last.op)) : errors[i].kind \in Kinds
       /\ ~last.raise => (last.ret /\ Boxes(FnOf(last.op)) = {})

C7_Witness ==
  /\ pc = "idle" /\ sent = 1 /\ last.raise /\ ~last.ret
  /\ "produkty" \in read_failed /\ products = <<>>
  /\ Cardinality(Boxes(FnOf(last.op))) = 1

\* C8: after add_product succeeded, the created row in a product listing has
\* kategoria_nazwa equal to the name of the category whose id was sent, which
\* is the name picked in the form; the page drawn by the reload lists it so.
C8_CreatedRowShowsItsCategory ==
  (last.op = "add_prod_form" /\ last.ret) =>
    /\ \E i \in DOMAIN ListNow :
         /\ ListNow[i].id = last.id
         /\ ListNow[i].kategoria_id = last.cat_id
         /\ ListNow[i].kategoria_nazwa = last.kat
         /\ \E c \in kategorie : c.id = last.cat_id /\ c.nazwa = ListNow[i].kategoria_nazwa
    /\ (pc = "idle" /\ "produkty" \notin read_failed) =>
         \E i \in DOMAIN products :
           products[i].id = last.id /\ products[i].kategoria_nazwa = last.kat

C8_Witness ==
  /\ pc = "idle" /\ last.op = "add_prod_form" /\ last.ret
  /\ "produkty" \notin read_failed
  /\ \E c, d \in kategorie : c.id # d.id /\ c.nazwa = last.kat /\ d.nazwa = last.kat
  /\ \E i \in DOMAIN products :
       products[i].id = last.id /\ products[i].kategoria_nazwa = last.kat

\* C9: after add_category(name) succeeded for a non-empty name, every category
\* listing contains a category with that name, and so does the page the reload
\* draws from a successful read; submitting add_cat_form with an empty name
\* sends no insert and shows a validation error.
C9_AddCategoryThenListed ==
  last.op = "add_cat_form" =>
    /\ last.name = "" =>
         /\ sent = 0
         /\ pc = "idle"
         /\ Box("add_cat_form", "Validation") \in Range(errors)
    /\ last.name # "" => sent = 1
    /\ last.ret =>
         /\ last.name # ""
         /\ \A listing \in CategoryListingsNow :
              \E i \in DOMAIN listing : listing[i].nazwa = last.name /\ listing[i].id = last.id
         /\ (pc = "idle" /\ "kategorie" \notin read_failed) =>
              \E i \in DOMAIN categories :
                categories[i].nazwa = last.name /\ categories[i].id = last.id

C9_Witness ==
  /\ pc = "idle" /\ last.op = "add_cat_form" /\ last.ret
  /\ "kategorie" \notin read_failed
  /\ \E i \in DOMAIN categories : categories[i].nazwa = last.name /\ categories[i].id = last.id
  /\ Len(categories) = 2

RECURSIVE ValueOfRows(_)
\* the sum of cena * liczba over a set of rows
ValueOfRows(S) ==
  IF S = {} THEN 0
  ELSE LET r == CHOOSE r \in S : TRUE
       IN r.cena * r.liczba + ValueOfRows(S \ {r})

\* C10: the total shown is the sum of cena * liczba over exactly the rows of
\* this run's `products`; and on the page drawn by the reload after a mutation
\* that succeeded, when the product read succeeded, it is that sum over the
\* rows of the table.
C10_TotalIsSumOfListed ==
  /\ total_value = ValueOfRows({[id |-> products[i].id, cena |-> products[i].cena,
                                 liczba |-> products[i].liczba] : i \in DOMAIN products})
  /\ (pc = "idle" /\ last.ret /\ "produkty" \notin read_failed) =>
       total_value = ValueOfRows(produkty)

C10_Witness ==
  /\ pc = "idle" /\ last.ret /\ "produkty" \notin read_failed
  /\ last.op \in {"update_qty_form", "update_price_form"}
  /\ Len(products) = 2
  /\ \E i \in DOMAIN products : products[i].liczba = 2 /\ products[i].cena = 2
  /\ total_value = ValueOfRows(produkty)

\* C11 (as claimed): every insert sent by add_prod_form carries a kategoria_id
\* that is the id of a row of kategorie at the moment the insert is sent,
\* whatever other instances did in between.
C11_InsertReferencesExistingCategory ==
  (last.op = "add_prod_form" /\ sent = 1) => last.existed

\* C11 (amended): every insert sent by add_prod_form carries the id of a
\* category that this run's category fetch returned, and that category bears
\* the name picked in the form.  (Until the reload has fetched the categories
\* again, `categories` is still the list the handler used.)
C11_InsertReferencesFetchedCategory ==
  (last.op = "add_prod_form" /\ sent = 1 /\ (last.ret => "kategorie" \notin fetched)) =>
    \E i \in DOMAIN categories :
      categories[i].id = last.cat_id /\ categories[i].nazwa = last.kat

\* the insert was sent for a category another instance had deleted after the fetch
C11_Witness ==
  /\ last.op = "add_prod_form" /\ sent = 1
  /\ ~last.existed /\ ~last.ret
  /\ \E i \in DOMAIN categories :
       categories[i].id = last.cat_id /\ categories[i].nazwa = last.kat

\* C12: in every reachable state every row of produkty holds a quantity that
\* is an integer >= 0 (and so does every row of a fetched listing), also when
\* this instance writes a quantity computed from a read that another
\* instance's write has made stale.
C12_QuantityNeverNegative ==
  /\ \A p \in produkty : p.liczba \in Nat
  /\ \A i \in DOMAIN products : products[i].liczba \in Nat

\* a decrement computed from a stale read: the table held less than the
\* amount taken off, and the absolute write still left a quantity >= 0
C12_Witness ==
  /\ last.op = "update_qty_form" /\ last.dir = "(-)" /\ last.ret /\ last.existed
  /\ last.stored # last.cur /\ last.stored < last.arg
  /\ \E p \in produkty : p.id = last.id /\ p.liczba = last.cur - last.arg /\ p.liczba >= 0

\* C13: the product a quick action has acted on is the one that every quick
\* action resolves the selected name to: the row prod_map gives (quantity
\* form) and the row the first-match lookup gives (price form, delete button)
\* have the same id, also when several listed products share the name.
\* (`products` is the list the handler used until the reload fetches it again.)
C13_SameRowForEveryAction ==
  (/\ last.op \in {"update_qty_form", "update_price_form", "delete_button"}
   /\ sent = 1
   /\ last.ret => "produkty" \notin fetched) =>
    /\ last.id = prod_map(products, last.name).id
    /\ last.id = first_id(products, last.name)

====
